---- MODULE Spec2Model ----
(***************************************************************************)
(* InSales <-> Odoo synchronisation (insales_sync): the modifier           *)
(* generators, the variant and product reconcilers, the single-entity     *)
(* sync actions, the configuration sync driver and the category mirror.   *)
(*                                                                         *)
(* Numbers.  A local float (weight, pricelist price) is an integer count  *)
(* of "fine" units; Scale fine units make one unit of the configured      *)
(* decimal precision, so float_repr and float_is_zero really round.  A    *)
(* decimal string and a remote Decimal are the integer count of fine      *)
(* units they denote.  Python's None is the empty tuple and a present     *)
(* value v is <<v>>, so an optional value compares without a type clash.  *)
(***************************************************************************)
EXTENDS Integers, Sequences, FiniteSets, TLC

VARIABLES
    configs,     \* insales_sync.config records, by database id
    templates,   \* product.template records, by database id
    products,    \* product.product records, by database id
    categories,  \* insales_sync.config.category records, by database id
    remote,      \* the remote shops: product payloads by remote product id
    taxonomy,    \* the remote shops' category lists, by configuration
    api_calls,   \* every request made through an API client, in order
    now,         \* fields.Datetime.now()
    run,         \* the handler in progress: its position and local variables
    last         \* what the last finished handler or generator call did

vars == <<configs, templates, products, categories, remote, taxonomy, api_calls, now, run,
          last>>

\* ------------------------------------------------------------------ bounds

\* fine units per unit of the configured decimal precision
Scale == 3
\* the clock stops advancing here
MaxNow == 2
\* the most API requests one explored run makes
MaxApiCalls == 4
\* the most category refreshes an explored run of the category mirror makes
MaxRefreshes == 2
\* the most quantity mappings a configuration holds when the quantity
\* generator is explored on its own
MaxFields == 3

\* ------------------------------------------------------------- Python values

None == <<>>

Some(v) == <<v>>

Max(a, b) == IF a >= b THEN a ELSE b

Abs(x) == IF x < 0 THEN 0 - x ELSE x

\* dict.get(key): the value, or None for a missing key
Get(d, k) == IF k \in DOMAIN d THEN d[k] ELSE None

\* dict.get(key, default)
GetOr(d, k, default) == IF k \in DOMAIN d THEN d[k] ELSE default

\* int(x or 0) of an optional integer
IntOrZero(x) == IF x = None THEN 0 ELSE x[1]

\* str(d) if d else None, of an optional Decimal: Decimal(0) is falsy
StrIfTruthy(d) == IF d = None \/ d = Some(0) THEN None ELSE d

\* --------------------------------------------------- odoo.tools.float_utils

\* float_repr(value, precision_digits): "%.*f" rounds to the nearest unit of
\* the precision, an exact tie to the even neighbour; the result is the
\* number the string denotes, in fine units
float_repr(value) ==
    LET a == Abs(value)
        q == a \div Scale
        r == a % Scale
        up == (2 * r > Scale) \/ (2 * r = Scale /\ q % 2 = 1)
        n == (IF up THEN q + 1 ELSE q) * Scale
    IN  IF value < 0 THEN 0 - n ELSE n

\* float_round(value, precision_rounding=epsilon): HALF-UP, away from zero
float_round(value) ==
    LET n == ((2 * Abs(value) + Scale) \div (2 * Scale)) * Scale
    IN  IF value < 0 THEN 0 - n ELSE n

\* float_is_zero(value, precision_digits): abs(float_round(value)) < epsilon
float_is_zero(value) == Abs(float_round(value)) < Scale

\* ------------------------------------------------------------ VariantModifier

VariantModifier(field_name, value, diff_name, diff_old_value, diff_new_value, is_list) ==
    [field_name |-> field_name, value |-> value, diff_name |-> diff_name,
     diff_old_value |-> diff_old_value, diff_new_value |-> diff_new_value,
     is_list |-> is_list]

\* ------------------------------------------------------------ Field extractor

\* the first entry of "variant-field-values" whose variant-field-id is the
\* mapping's resolved id, or 0 when there is none
AdditionalFieldValue(values, field_id) ==
    LET hits == {i \in DOMAIN values : values[i]["variant-field-id"] = field_id}
    IN  IF hits = {} THEN 0
        ELSE LET first == CHOOSE i \in hits : \A j \in hits : i <= j
             IN  IntOrZero(values[first]["value"])

\* get_quantity_from_insales_variant: [raised, value]; raised names
\* UnknownInSalesVariantField
get_quantity_from_insales_variant(in_variant, field) ==
    IF field.is_additional
    THEN [raised |-> FALSE,
          value |-> AdditionalFieldValue(
                        GetOr(in_variant, "variant-field-values", <<>>),
                        field.insales_field_id)]
    ELSE IF field.insales_field \notin DOMAIN in_variant
         THEN [raised |-> TRUE, value |-> 0]
         ELSE [raised |-> FALSE, value |-> IntOrZero(in_variant[field.insales_field])]

\* sum(line.<column> for line in quant) over the stock.quant lines found
RECURSIVE SumQuantity(_, _)
SumQuantity(lines, i) ==
    IF i > Len(lines) THEN 0 ELSE lines[i].quantity + SumQuantity(lines, i + 1)

RECURSIVE SumReserved(_, _)
SumReserved(lines, i) ==
    IF i > Len(lines) THEN 0 ELSE lines[i].reserved_quantity + SumReserved(lines, i + 1)

\* int(x) of a float held in half units: truncation toward zero
IntOfHalves(h) == IF h < 0 THEN 0 - ((0 - h) \div 2) ELSE h \div 2

\* product.insales_sync_get_quantity(location): int(on_hand - reserved), the
\* stock.quant quantities being floats, here in half units
insales_sync_get_quantity(product, location) ==
    LET quant == product.quant[location]
    IN  IntOfHalves(SumQuantity(quant, 1) - SumReserved(quant, 1))

\* --------------------------------------------------------- Modifier generators

\* the body of the loop over cfg.quantity_fields for one mapping:
\* [mods, log], log holding the message of a caught UnknownInSalesVariantField
QtyFieldStep(product, in_variant, field) ==
    LET got == get_quantity_from_insales_variant(in_variant, field)
        in_qty == Max(got.value, 0)
        odoo_qty == insales_sync_get_quantity(product, field.location)
    IN  IF got.raised
        THEN [mods |-> <<>>, log |-> <<field.insales_field>>]
        ELSE IF in_qty = odoo_qty
        THEN [mods |-> <<>>, log |-> <<>>]
        ELSE [mods |-> <<VariantModifier(
                            IF field.is_additional
                            THEN "variant-field-values-attributes"
                            ELSE field.insales_field,
                            IF field.is_additional
                            THEN [handle |-> field.insales_field, value |-> odoo_qty]
                            ELSE odoo_qty,
                            field.insales_field, in_qty, odoo_qty,
                            field.is_additional)>>,
              log |-> <<>>]

\* the loop leaving at the first UnknownInSalesVariantField
RECURSIVE QtyLoopAbort(_, _, _, _)
QtyLoopAbort(product, in_variant, fields, i) ==
    IF i > Len(fields) THEN [mods |-> <<>>, log |-> <<>>]
    ELSE LET head == QtyFieldStep(product, in_variant, fields[i])
             rest == QtyLoopAbort(product, in_variant, fields, i + 1)
         IN  IF head.log # <<>> THEN head
             ELSE [mods |-> head.mods \o rest.mods, log |-> head.log \o rest.log]

RECURSIVE QtyLoop(_, _, _, _)
QtyLoop(product, in_variant, fields, i) ==
    IF i > Len(fields) THEN [mods |-> <<>>, log |-> <<>>]
    ELSE LET head == QtyFieldStep(product, in_variant, fields[i])
             rest == QtyLoop(product, in_variant, fields, i + 1)
         IN  [mods |-> head.mods \o rest.mods, log |-> head.log \o rest.log]

\* _get_insales_variant_qty_modifiers: [mods, log]
get_insales_variant_qty_modifiers(cfg, product, in_variant) ==
    IF product.insales_sync_skip_qty THEN [mods |-> <<>>, log |-> <<>>]
    ELSE QtyLoop(product, in_variant, cfg.quantity_fields, 1)

\* _get_insales_variant_weight_modifiers
get_insales_variant_weight_modifiers(cfg, product, in_weight) ==
    IF ~cfg.sync_weight \/ product.insales_sync_skip_weight THEN <<>>
    ELSE LET weight_str == float_repr(Max(product.weight, 0))
             weight_is_zero == float_is_zero(product.weight)
             new_value == IF ~weight_is_zero THEN Some(weight_str) ELSE None
         IN  IF in_weight = Some(weight_str) THEN <<>>
             ELSE IF cfg.sync_weight_skip_zero /\ weight_is_zero THEN <<>>
             ELSE <<VariantModifier("weight", new_value, "weight",
                                    StrIfTruthy(in_weight), new_value, FALSE)>>

\* pricelist.get_product_price(product, 1, None)
get_product_price(pricelist_id, product) == product.pricelist_price[pricelist_id]

\* the old price kept for the shop: None when old_price <= price
EffectiveOldPrice(old_price, price) ==
    IF old_price <= price THEN None ELSE Some(float_repr(old_price))

\* _get_insales_variant_price_modifiers
get_insales_variant_price_modifiers(cfg, product, in_price, in_old_price) ==
    IF cfg.pricelist_id = 0 \/ product.insales_sync_skip_price THEN <<>>
    ELSE LET price == Max(get_product_price(cfg.pricelist_id, product), 0)
             price_str == float_repr(price)
             old_price == get_product_price(cfg.old_pricelist_id, product)
             old_price_str == EffectiveOldPrice(old_price, price)
         IN  (IF in_price # Some(price_str)
              THEN <<VariantModifier("price", Some(price_str), "price",
                                     StrIfTruthy(in_price), Some(price_str), FALSE)>>
              ELSE <<>>)
             \o
             (IF cfg.old_pricelist_id # 0 /\ in_old_price # old_price_str
              THEN <<VariantModifier("old-price", old_price_str, "old_price",
                                     StrIfTruthy(in_old_price), old_price_str, FALSE)>>
              ELSE <<>>)

\* ------------------------------------------------------------ the remote shop

\* get_variant_field(handle).id: the shop's numeric id of an additional field
VariantFieldId(handle) ==
    CASE handle = "custom_stock" -> 42
      [] handle = "custom_reserve" -> 43
      [] OTHER -> 0

\* the positions of the variant with this id in a product payload
VariantIndex(in_product, variant_id) ==
    {i \in DOMAIN in_product.variants : in_product.variants[i]["id"] = variant_id}

\* "variant-field-values" after storing one {handle, value} attribute
StoreFieldValue(values, attr) ==
    LET fid == VariantFieldId(attr.handle)
        hits == {i \in DOMAIN values : values[i]["variant-field-id"] = fid}
    IN  IF hits = {}
        THEN Append(values, ("variant-field-id" :> fid) @@ ("value" :> Some(attr.value)))
        ELSE [i \in DOMAIN values |->
                 IF i \in hits
                 THEN ("variant-field-id" :> fid) @@ ("value" :> Some(attr.value))
                 ELSE values[i]]

RECURSIVE StoreFieldValues(_, _, _)
StoreFieldValues(values, attrs, i) ==
    IF i > Len(attrs) THEN values
    ELSE StoreFieldValues(StoreFieldValue(values, attrs[i]), attrs, i + 1)

\* the variant payload the shop holds after update_product_variant(data):
\* it stores exactly the values submitted
StoredVariant(in_variant, data) ==
    LET attrs == GetOr(data, "variant-field-values-attributes", <<>>)
        keys == (DOMAIN in_variant \cup DOMAIN data)
                    \ {"variant-field-values-attributes"}
    IN  [k \in keys |->
            IF k = "variant-field-values"
            THEN StoreFieldValues(in_variant[k], attrs, 1)
            ELSE IF k \notin DOMAIN data THEN in_variant[k]
            ELSE IF k \in {"weight", "price", "old-price"} THEN data[k]
            ELSE Some(data[k])]

\* the shop after a successful update_product_variant(product_id, variant_id, data)
RemoteAfterUpdate(product_id, variant_id, data) ==
    IF product_id \notin DOMAIN remote THEN remote
    ELSE [remote EXCEPT ![product_id].variants =
             [i \in DOMAIN @ |->
                 IF @[i]["id"] = variant_id THEN StoredVariant(@[i], data) ELSE @[i]]]

\* --------------------------------------------------------- Variant reconciler

\* the payload with every modifier assigned as a scalar is
RECURSIVE BuildDataOverwrite(_, _)
BuildDataOverwrite(mods, n) ==
    IF n = 0 THEN <<>>
    ELSE LET data == BuildDataOverwrite(mods, n - 1)
             mod == mods[n]
         IN  (mod.field_name :> (IF mod.is_list THEN <<mod.value>> ELSE mod.value)) @@ data

\* data = {}; for mod in mods: data[mod.field_name] = ... (the first n modifiers)
RECURSIVE BuildData(_, _)
BuildData(mods, n) ==
    IF n = 0 THEN <<>>
    ELSE LET data == BuildData(mods, n - 1)
             mod == mods[n]
         IN  (mod.field_name :>
                 (IF mod.is_list
                  THEN GetOr(data, mod.field_name, <<>>) \o <<mod.value>>
                  ELSE mod.value))
             @@ data

\* the modifiers process_insales_variant collects: weight + price + quantity
CollectModifiers(cfg, product, in_variant) ==
    get_insales_variant_weight_modifiers(cfg, product, Get(in_variant, "weight"))
    \o get_insales_variant_price_modifiers(cfg, product, Get(in_variant, "price"),
                                           Get(in_variant, "old-price"))
    \o get_insales_variant_qty_modifiers(cfg, product, in_variant).mods

\* the payload submitted whenever there are modifiers, in any environment
SubmitsUpdateAnyEnv(cfg, mods) == mods # <<>>

\* whether process_insales_variant submits the payload to the shop
SubmitsUpdate(cfg, mods) == mods # <<>> /\ cfg.prod_environment

\* the write-back without the timestamp
WriteBackIdOnly(prods, pid, in_variant) ==
    [prods EXCEPT ![pid].insales_sync_variant_id = in_variant["id"]]

\* product_product.write({insales_sync_variant_id, insales_sync_timestamp})
WriteBack(prods, pid, in_variant) ==
    [prods EXCEPT ![pid].insales_sync_variant_id = in_variant["id"],
                  ![pid].insales_sync_timestamp = now]

\* process_insales_variant(product_product, in_variant) for the product pid
\* linked to configuration cfg_id; update_ok is whether the shop accepts the
\* update request.  The result holds the state the call leaves and whether
\* ApiError left it; requests are the API requests it made.
process_insales_variant(cfg_id, pid, in_variant, update_ok) ==
    LET cfg == configs[cfg_id]
        product == products[pid]
        mods == CollectModifiers(cfg, product, in_variant)
        submit == SubmitsUpdate(cfg, mods)
        data == BuildData(mods, Len(mods))
        call == [op |-> "update_product_variant", cfg |-> cfg_id,
                 product_id |-> in_variant["product-id"],
                 variant_id |-> in_variant["id"], data |-> data, ok |-> update_ok]
        raised == submit /\ ~update_ok
    IN  [mods |-> mods,
         log |-> get_insales_variant_qty_modifiers(cfg, product, in_variant).log,
         raised |-> raised,
         requests |-> IF submit THEN <<call>> ELSE <<>>,
         remote |-> IF submit /\ update_ok
                    THEN RemoteAfterUpdate(in_variant["product-id"], in_variant["id"], data)
                    ELSE remote,
         products |-> IF raised THEN products ELSE WriteBack(products, pid, in_variant)]

\* ---------------------------------------------------------------- strings

\* a string is the sequence of its characters
Digit(n) ==
    CASE n = 0 -> "0" [] n = 1 -> "1" [] n = 2 -> "2" [] n = 3 -> "3" [] n = 4 -> "4"
      [] n = 5 -> "5" [] n = 6 -> "6" [] n = 7 -> "7" [] n = 8 -> "8" [] n = 9 -> "9"

\* str(n) of a natural number
RECURSIVE Str(_)
Str(n) == IF n < 10 THEN <<Digit(n)>> ELSE Str(n \div 10) \o <<Digit(n % 10)>>

\* "/".join(parts)
RECURSIVE Join(_)
Join(parts) ==
    IF parts = <<>> THEN <<>>
    ELSE IF Len(parts) = 1 THEN parts[1]
    ELSE parts[1] \o <<"/">> \o Join(Tail(parts))

\* s.split("/")
RECURSIVE Split(_)
Split(s) ==
    LET cuts == {i \in DOMAIN s : s[i] = "/"}
    IN  IF cuts = {} THEN <<s>>
        ELSE LET c == CHOOSE i \in cuts : \A j \in cuts : i <= j
             IN  <<SubSeq(s, 1, c - 1)>> \o Split(SubSeq(s, c + 1, Len(s)))

\* [x for x in parts if x]
NonEmpty(parts) == SelectSeq(parts, LAMBDA x : x # <<>>)

\* s LIKE prefix || '%'
StartsWith(s, prefix) ==
    Len(prefix) <= Len(s) /\ SubSeq(s, 1, Len(prefix)) = prefix

\* ---------------------------------------------- insales_sync.config.category

\* get_self_path
get_self_path(row) == Join(NonEmpty(Split(row.parent_path)) \o <<Str(row.insales_id)>>)

\* get_children: search([["parent_path", "=like", self_path + "%"]]), a search
\* of the whole table
get_children(table, id) ==
    {c \in DOMAIN table : StartsWith(table[c].parent_path, get_self_path(table[id]))}

\* super().write(values) on the records ids
OrmWrite(table, ids, values) ==
    [id \in DOMAIN table |->
        IF id \in ids
        THEN [f \in DOMAIN table[id] |->
                 IF f \in DOMAIN values THEN values[f] ELSE table[id][f]]
        ELSE table[id]]

RECURSIVE CategoryWrite(_, _, _)
RECURSIVE propagate_sync_to_children(_, _)

\* propagate_sync_to_children over the records ids, one after the other
propagate_sync_to_children(table, ids) ==
    IF ids = {} THEN table
    ELSE LET id == CHOOSE i \in ids : \A j \in ids : i <= j
             after == IF table[id].sync
                      THEN CategoryWrite(table, get_children(table, id), [sync |-> TRUE])
                      ELSE table
         IN  propagate_sync_to_children(after, ids \ {id})

\* InSalesSyncConfigCategory.write(values) on the records ids
CategoryWrite(table, ids, values) ==
    propagate_sync_to_children(OrmWrite(table, ids, values), ids)

\* the records created with the field defaults: sync is False
NewCategory(config_id, vals) ==
    [config_id |-> config_id, title |-> vals.title, insales_id |-> vals.insales_id,
     parent_path |-> vals.parent_path, path_named |-> vals.path_named, sync |-> FALSE]

\* ----------------------------------------------------------- update_categories

\* a category of the shop's list: parent_id is None for a root, title is
\* the rank of the title among all titles
RemoteCategory(id, parent_id, title) == [id |-> id, parent_id |-> parent_id, title |-> title]

\* a < b for two lists of title ranks, as the joined strings compare
RECURSIVE LexLess(_, _)
LexLess(a, b) ==
    IF a = <<>> THEN b # <<>>
    ELSE IF b = <<>> THEN FALSE
    ELSE IF a[1] # b[1] THEN a[1] < b[1]
    ELSE LexLess(Tail(a), Tail(b))

\* row a comes before row b under _order = "path_named"
CategoryBefore(table, a, b) ==
    \/ LexLess(table[a].path_named, table[b].path_named)
    \/ table[a].path_named = table[b].path_named /\ a < b

\* the records ids in _order
RECURSIVE Ordered(_, _)
Ordered(table, ids) ==
    IF ids = {} THEN <<>>
    ELSE LET first == CHOOSE a \in ids : \A b \in ids \ {a} : CategoryBefore(table, a, b)
         IN  <<first>> \o Ordered(table, ids \ {first})

\* record.categories: the records of one configuration
CategoriesOf(table, cfg_id) == {id \in DOMAIN table : table[id].config_id = cfg_id}

\* search([["insales_id", "not in", ids]]).unlink(): a search of the whole table
UnlinkStale(table, in_categories) ==
    LET ids == {in_categories[i].id : i \in DOMAIN in_categories}
        keep == {id \in DOMAIN table : table[id].insales_id \in ids}
    IN  [id \in keep |-> table[id]]

\* the entry of cats for remote id insales_id, or <<>>
CatsGet(cats, insales_id) ==
    LET hits == {i \in DOMAIN cats : cats[i].insales_id = insales_id}
    IN  IF hits = {} THEN <<>> ELSE <<cats[CHOOSE i \in hits : TRUE]>>

\* cats = {cat.insales_id: {"id", "insales_id"} for cat in record.categories},
\* in insertion order; id 0 stands for no "id" key
RECURSIVE CatsOfRecords(_, _)
CatsOfRecords(table, order) ==
    IF order = <<>> THEN <<>>
    ELSE <<[id |-> order[1], insales_id |-> table[order[1]].insales_id,
            title |-> 0, insales_parent_id |-> None]>>
         \o CatsOfRecords(table, Tail(order))

\* the loop "for in_cat in in_categories": update the entry or add one
RECURSIVE CatsMerge(_, _, _)
CatsMerge(cats, in_categories, i) ==
    IF i > Len(in_categories) THEN cats
    ELSE LET in_cat == in_categories[i]
             hits == {k \in DOMAIN cats : cats[k].insales_id = in_cat.id}
             merged ==
                 IF hits # {}
                 THEN [k \in DOMAIN cats |->
                          IF k \in hits
                          THEN [cats[k] EXCEPT !.title = in_cat.title,
                                               !.insales_parent_id = in_cat.parent_id]
                          ELSE cats[k]]
                 ELSE Append(cats, [id |-> 0, insales_id |-> in_cat.id,
                                    title |-> in_cat.title,
                                    insales_parent_id |-> in_cat.parent_id])
         IN  CatsMerge(merged, in_categories, i + 1)

\* walk_up(tree, curr, path): the entries from the root down to the parent;
\* fuel bounds the walk by the number of entries
RECURSIVE walk_up(_, _, _, _)
walk_up(tree, curr, path, fuel) ==
    LET parent == IF curr.insales_parent_id = None THEN <<>>
                  ELSE CatsGet(tree, curr.insales_parent_id[1])
    IN  IF parent = <<>> \/ fuel = 0 THEN path
        ELSE walk_up(tree, parent[1], <<parent[1]>> \o path, fuel - 1)

\* the values written for one entry of cats
CatValues(cats, cat) ==
    LET up == walk_up(cats, cat, <<>>, Len(cats))
    IN  [title |-> cat.title, insales_id |-> cat.insales_id,
         parent_path |-> Join([i \in DOMAIN up |-> Str(up[i].insales_id)]),
         path_named |-> [i \in DOMAIN up |-> up[i].title] \o <<cat.title>>]

\* record.write({"categories": data}): the commands (1, id, vals) and
\* (0, 0, vals), in order
RECURSIVE ApplyCommands(_, _, _, _)
ApplyCommands(table, cfg_id, cats, i) ==
    IF i > Len(cats) THEN table
    ELSE LET vals == CatValues(cats, cats[i])
             new_id == IF DOMAIN table = {} THEN 1
                       ELSE 1 + (CHOOSE m \in DOMAIN table : \A k \in DOMAIN table : k <= m)
             next == IF cats[i].id # 0
                     THEN CategoryWrite(table, {cats[i].id}, vals)
                     ELSE [id \in DOMAIN table \cup {new_id} |->
                              IF id = new_id THEN NewCategory(cfg_id, vals) ELSE table[id]]
         IN  ApplyCommands(next, cfg_id, cats, i + 1)

\* update_categories of one configuration, given the list get_categories()
\* returned: the table it leaves
update_categories(table, cfg_id, in_categories) ==
    LET kept == UnlinkStale(table, in_categories)
        cats == CatsMerge(CatsOfRecords(kept, Ordered(kept, CategoriesOf(kept, cfg_id))),
                          in_categories, 1)
    IN  ApplyCommands(kept, cfg_id, cats, 1)

\* ------------------------------------------------------------------ records

Locations == {"WH", "SHOP"}

\* an insales_sync.config.quantity record
QuantityField(location, is_additional, insales_field) ==
    [location |-> location, is_additional |-> is_additional,
     insales_field |-> insales_field,
     insales_field_id |-> IF is_additional THEN VariantFieldId(insales_field) ELSE 0]

\* an insales_sync.config record with the field defaults
NewConfig ==
    [active |-> FALSE, prod_environment |-> FALSE, pricelist_id |-> 0,
     old_pricelist_id |-> 0, quantity_fields |-> <<>>, sync_weight |-> FALSE,
     sync_weight_skip_zero |-> TRUE]

\* a product.template record with the link fields unset
NewTemplate ==
    [insales_sync_config_id |-> 0, insales_sync_product_id |-> 0,
     insales_sync_permalink |-> None]

\* a product.product record with the sync fields at their defaults
NewProduct ==
    [product_tmpl_id |-> 1, default_code |-> Some("SKU1"), weight |-> 0,
     pricelist_price |-> <<0, 0>>, quant |-> [l \in Locations |-> <<>>],
     insales_sync_variant_id |-> 0, insales_sync_timestamp |-> 0,
     insales_sync_skip_price |-> FALSE, insales_sync_skip_qty |-> FALSE,
     insales_sync_skip_weight |-> FALSE]

\* one stock.quant line, quantities in half units
Quant(quantity, reserved_quantity) ==
    [quantity |-> quantity, reserved_quantity |-> reserved_quantity]

\* a remote variant payload
RemoteVariant(id, product_id, sku, weight, price, old_price, quantity, field_values) ==
    ("id" :> id) @@ ("product-id" :> product_id) @@ ("sku" :> sku)
    @@ ("weight" :> weight) @@ ("price" :> price) @@ ("old-price" :> old_price)
    @@ ("quantity" :> quantity) @@ ("variant-field-values" :> field_values)

\* one entry of "variant-field-values"
FieldValue(field_id, value) == ("variant-field-id" :> field_id) @@ ("value" :> value)

\* a remote product payload, of the shop of one configuration and listed
\* under one of its categories
RemoteProduct(shop, category_id, id, permalink, variants) ==
    [shop |-> shop, category_id |-> category_id, id |-> id, permalink |-> permalink,
     variants |-> variants]

Idle == [pc |-> "idle"]

NoCall == [handler |-> "none"]

\* ------------------------------------------- the generators on their own

\* the configuration, the local variant and the remote variant a generator
\* call is made on
GenCfg == configs[1]

GenProduct == products[1]

GenVariant == remote[10].variants[1]

\* local floats around zero and around one unit of the precision
Floats == (0 - (Scale + 1)) .. (2 * Scale + 1)

\* what the shop may hold for a decimal field
RemoteDecimals == {None} \cup {Some(d) : d \in {0, 1, Scale, 2 * Scale}}

GenWorld(cfg, product, in_variant) ==
    /\ configs = (1 :> cfg)
    /\ templates = (1 :> [NewTemplate EXCEPT !.insales_sync_config_id = 1,
                                             !.insales_sync_product_id = 10])
    /\ products = (1 :> product)
    /\ categories = <<>>
    /\ remote = (10 :> RemoteProduct(1, 7, 10, "p10", <<in_variant>>))
    /\ taxonomy = (1 :> <<>>)
    /\ api_calls = <<>>
    /\ now = 1
    /\ run = Idle
    /\ last = NoCall

InitWeight ==
    \E sw, sz, skip \in BOOLEAN, w \in Floats, rw \in RemoteDecimals :
        GenWorld([NewConfig EXCEPT !.sync_weight = sw, !.sync_weight_skip_zero = sz],
                 [NewProduct EXCEPT !.weight = w, !.insales_sync_skip_weight = skip],
                 RemoteVariant(100, 10, Some("SKU1"), rw, None, None, None, <<>>))

WeightModifiersCall ==
    /\ last.handler = "none"
    /\ last' = [handler |-> "weight_modifiers",
                mods |-> get_insales_variant_weight_modifiers(
                             GenCfg, GenProduct, Get(GenVariant, "weight"))]
    /\ UNCHANGED <<categories, taxonomy, configs, templates, products, remote, api_calls, now, run>>

SpecWeight == InitWeight /\ [][WeightModifiersCall]_vars

InitPrice ==
    \E pl \in {0, 1}, opl \in {0, 2}, skip \in BOOLEAN,
       price \in Floats, old \in Floats, rp \in RemoteDecimals, rop \in RemoteDecimals :
        GenWorld([NewConfig EXCEPT !.pricelist_id = pl, !.old_pricelist_id = opl],
                 [NewProduct EXCEPT !.pricelist_price = <<price, old>>,
                                    !.insales_sync_skip_price = skip],
                 RemoteVariant(100, 10, Some("SKU1"), None, rp, rop, None, <<>>))

PriceModifiersCall ==
    /\ last.handler = "none"
    /\ last' = [handler |-> "price_modifiers",
                mods |-> get_insales_variant_price_modifiers(
                             GenCfg, GenProduct, Get(GenVariant, "price"),
                             Get(GenVariant, "old-price"))]
    /\ UNCHANGED <<categories, taxonomy, configs, templates, products, remote, api_calls, now, run>>

SpecPrice == InitPrice /\ [][PriceModifiersCall]_vars

\* the quantity mappings an operator may configure: a fixed field of the
\* payload, a field name the payload does not have, two additional fields
FieldPool ==
    {QuantityField("WH", FALSE, "quantity"), QuantityField("SHOP", FALSE, "qty_typo"),
     QuantityField("SHOP", TRUE, "custom_stock"), QuantityField("WH", TRUE, "custom_reserve")}

SeqsUpTo(S, n) == UNION {[1..k -> S] : k \in 0..n}

\* stock.quant lines of one location, in half units
QuantLines ==
    {<<>>, <<Quant(4, 0)>>, <<Quant(5, 1), Quant(1, 3)>>, <<Quant(0, 3)>>}

RemoteQuantities == {None, Some(0 - 1), Some(0), Some(2)}

RemoteFieldValues ==
    {<<>>, <<FieldValue(42, Some(2))>>,
     <<FieldValue(42, None), FieldValue(43, Some(1))>>}

InitQty ==
    \E fields \in SeqsUpTo(FieldPool, MaxFields), skip \in BOOLEAN,
       wh \in QuantLines, shop \in {<<>>, <<Quant(5, 0)>>},
       rq \in RemoteQuantities, rfv \in RemoteFieldValues :
        GenWorld([NewConfig EXCEPT !.quantity_fields = fields],
                 [NewProduct EXCEPT !.quant = ("WH" :> wh) @@ ("SHOP" :> shop),
                                    !.insales_sync_skip_qty = skip],
                 RemoteVariant(100, 10, Some("SKU1"), None, None, None, rq, rfv))

QtyModifiersCall ==
    /\ last.handler = "none"
    /\ LET got == get_insales_variant_qty_modifiers(GenCfg, GenProduct, GenVariant)
       IN  last' = [handler |-> "qty_modifiers", mods |-> got.mods, log |-> got.log]
    /\ UNCHANGED <<categories, taxonomy, configs, templates, products, remote, api_calls, now, run>>

SpecQty == InitQty /\ [][QtyModifiersCall]_vars

\* ---------------------------------------------------------- the API client

\* the variant payload get_product_variant(product_id, variant_id) returns,
\* failed being ApiError: the shop has no such variant, or the request fails
FetchVariant(cfg_id, product_id, variant_id, fetch_ok) ==
    IF ~fetch_ok \/ product_id \notin DOMAIN remote
          \/ remote[product_id].shop # cfg_id
          \/ VariantIndex(remote[product_id], variant_id) = {}
    THEN [failed |-> TRUE, payload |-> <<>>]
    ELSE [failed |-> FALSE,
          payload |-> remote[product_id].variants[
                          CHOOSE i \in VariantIndex(remote[product_id], variant_id) : TRUE]]

\* the product payload get_product(product_id) returns, failed being ApiError
FetchProduct(cfg_id, product_id, fetch_ok) ==
    IF ~fetch_ok \/ product_id \notin DOMAIN remote \/ remote[product_id].shop # cfg_id
    THEN [failed |-> TRUE, payload |-> <<>>]
    ELSE [failed |-> FALSE, payload |-> remote[product_id]]

\* what `last` keeps of one process_insales_variant call: res is its result,
\* calls_from the number of API requests made before it
VariantCall(cfg_id, pid, in_variant, res, calls_from, repeat) ==
    [cfg_id |-> cfg_id, pid |-> pid, in_variant |-> in_variant, mods |-> res.mods,
     log |-> res.log, raised |-> res.raised, calls_from |-> calls_from,
     calls_to |-> calls_from + Len(res.requests), at |-> now, repeat |-> repeat]

\* ------------------------------------------------------ sync_insales_variant

\* a handler that swallows ApiError and returns
RaisedSwallowed(entry) == "returned"

\* what the handler entry raises to its caller when ApiError reaches it:
\* the single-entity syncs map it in their except clause, sync_configuration
\* has none
RaisedBy(entry) ==
    IF entry = "sync_insales_variant" THEN "VariantInSalesNotFoundError"
    ELSE IF entry = "sync_insales_product" THEN "ProductInSalesNotFoundError"
    ELSE "ApiError"

\* the guard of sync_insales_variant: it returns at once when this holds
SyncVariantSkips(pid) ==
    LET tmpl == templates[products[pid].product_tmpl_id]
    IN  \/ tmpl.insales_sync_config_id = 0
        \/ ~configs[tmpl.insales_sync_config_id].active
        \/ products[pid].insales_sync_variant_id = 0
        \/ tmpl.insales_sync_product_id = 0

\* the previous handler was a reconcile of this same local variant that
\* completed in production environment
RepeatsCompletedRun(pid) ==
    /\ "pv" \in DOMAIN last
    /\ last.pv # None
    /\ last.pv[1].pid = pid
    /\ ~last.pv[1].raised
    /\ configs[last.pv[1].cfg_id].prod_environment

\* sync_insales_variant(product_product)
SyncInsalesVariant(pid) ==
    /\ run.pc = "idle"
    /\ LET tmpl == templates[products[pid].product_tmpl_id]
           cfg_id == tmpl.insales_sync_config_id
           product_id == tmpl.insales_sync_product_id
           variant_id == products[pid].insales_sync_variant_id
       IN  IF SyncVariantSkips(pid)
           THEN /\ last' = [handler |-> "sync_insales_variant", outcome |-> "noop",
                            pid |-> pid, calls_from |-> Len(api_calls), pv |-> None]
                /\ UNCHANGED <<categories, taxonomy, configs, templates, products, remote, api_calls, now, run>>
           ELSE /\ Len(api_calls) + 2 <= MaxApiCalls
                /\ \E fetch_ok, update_ok \in BOOLEAN :
                      LET got == FetchVariant(cfg_id, product_id, variant_id, fetch_ok)
                          fetch == [op |-> "get_product_variant", cfg |-> cfg_id,
                                    product_id |-> product_id, variant_id |-> variant_id,
                                    ok |-> ~got.failed]
                      IN  IF got.failed
                          THEN /\ api_calls' = Append(api_calls, fetch)
                               /\ last' = [handler |-> "sync_insales_variant",
                                           outcome |-> RaisedBy("sync_insales_variant"),
                                           pid |-> pid, calls_from |-> Len(api_calls),
                                           pv |-> None]
                               /\ UNCHANGED <<categories, taxonomy, configs, templates, products, remote, now, run>>
                          ELSE LET res == process_insales_variant(cfg_id, pid, got.payload, update_ok)
                               IN  /\ api_calls' =
                                          Append(api_calls, fetch) \o res.requests
                                   /\ remote' = res.remote
                                   /\ products' = res.products
                                   /\ last' = [handler |-> "sync_insales_variant",
                                               outcome |-> IF res.raised
                                                           THEN RaisedBy("sync_insales_variant")
                                                           ELSE "returned",
                                               pid |-> pid, calls_from |-> Len(api_calls),
                                               pv |-> Some(VariantCall(
                                                         cfg_id, pid, got.payload, res,
                                                         Len(api_calls) + 1,
                                                         RepeatsCompletedRun(pid)))]
                                   /\ UNCHANGED <<categories, taxonomy, configs, templates, now, run>>

\* ---------------------------------------------------- process_insales_product

\* self.env["product.product"].search([("default_code", "=", sku)])
SearchByCode(sku) == {pid \in DOMAIN products : products[pid].default_code = sku}

\* the search taken to match whenever it finds anything
MatchVariantFirstHit(in_variant) ==
    LET sku == Get(in_variant, "sku")
        found == SearchByCode(sku)
    IN  IF sku = None THEN [error |-> "VariantSkuNotFoundError", pid |-> 0]
        ELSE IF found = {} THEN [error |-> "ProductInSalesNotFoundError", pid |-> 0]
        ELSE [error |-> "", pid |-> CHOOSE pid \in found : \A q \in found : pid <= q]

\* the local variant a remote variant is matched to, or the error raised
MatchVariant(in_variant) ==
    LET sku == Get(in_variant, "sku")
        found == SearchByCode(sku)
    IN  IF sku = None THEN [error |-> "VariantSkuNotFoundError", pid |-> 0]
        ELSE IF found = {} THEN [error |-> "ProductInSalesNotFoundError", pid |-> 0]
        ELSE IF Cardinality(found) > 1 THEN [error |-> "MultipleProductError", pid |-> 0]
        ELSE [error |-> "", pid |-> CHOOSE pid \in found : TRUE]

\* product_product.product_tmpl_id.write({config, product id, permalink})
WriteLinkFields(tmpls, tid, cfg_id, in_product) ==
    [tmpls EXCEPT ![tid] = [insales_sync_config_id |-> cfg_id,
                            insales_sync_product_id |-> in_product.id,
                            insales_sync_permalink |-> Some(in_product.permalink)]]

\* the loop of process_insales_product(cfg, in_product) about to handle
\* variant 1, entered from the handler entry; cats and stream are what
\* sync_configuration has still to list and to process
LoopStart(entry, cfg_id, in_product, cats, stream) ==
    [pc |-> "variants", entry |-> entry, cfg |-> cfg_id, in_product |-> in_product,
     i |-> 1, handled |-> <<>>, cats |-> cats, stream |-> stream]

\* one pass of the loop over in_product["variants"]
ProcessVariantStep ==
    /\ run.pc = "variants"
    /\ run.i <= Len(run.in_product.variants)
    /\ LET in_variant == run.in_product.variants[run.i]
           match == MatchVariant(in_variant)
       IN  IF match.error # ""
           THEN \* the except clause: log and continue
                /\ run' = [run EXCEPT !.i = @ + 1, !.handled = Append(@, match.error)]
                /\ last' = [handler |-> "process_insales_product",
                            outcome |-> match.error, pv |-> None]
                /\ UNCHANGED <<configs, templates, products, categories, remote, taxonomy,
                               api_calls, now>>
           ELSE \E update_ok \in BOOLEAN :
                  LET res == process_insales_variant(run.cfg, match.pid, in_variant, update_ok)
                      pv == Some(VariantCall(run.cfg, match.pid, in_variant, res,
                                             Len(api_calls), RepeatsCompletedRun(match.pid)))
                  IN  /\ templates' = WriteLinkFields(templates,
                                                      products[match.pid].product_tmpl_id,
                                                      run.cfg, run.in_product)
                      /\ products' = res.products
                      /\ remote' = res.remote
                      /\ api_calls' = api_calls \o res.requests
                      /\ IF res.raised
                         THEN \* ApiError is not caught by the loop
                              /\ run' = Idle
                              /\ last' = [handler |-> run.entry,
                                          outcome |-> RaisedBy(run.entry), pv |-> pv,
                                          handled |-> Append(run.handled, "ApiError"),
                                          in_product |-> run.in_product,
                                          run |-> run]
                         ELSE /\ run' = [run EXCEPT !.i = @ + 1,
                                                    !.handled = Append(@, "reconciled")]
                              /\ last' = [handler |-> "process_insales_product",
                                          outcome |-> "reconciled", pv |-> pv]
                      /\ UNCHANGED <<configs, categories, taxonomy, now>>

\* the loop is over: sync_insales_product returns, sync_configuration goes
\* on to the next product of the stream
ProductLoopEnd ==
    /\ run.pc = "variants"
    /\ run.i > Len(run.in_product.variants)
    /\ IF run.entry = "sync_insales_product"
       THEN /\ run' = Idle
            /\ last' = [handler |-> run.entry, outcome |-> "returned",
                        pv |-> IF "pv" \in DOMAIN last THEN last.pv ELSE None,
                        handled |-> run.handled, in_product |-> run.in_product]
       ELSE /\ run' = [run EXCEPT !.pc = "stream",
                                  !.done = Append(@, run.in_product.id)]
            /\ last' = [handler |-> "process_insales_product", outcome |-> "returned",
                        pv |-> IF "pv" \in DOMAIN last THEN last.pv ELSE None,
                        handled |-> run.handled, in_product |-> run.in_product]
    /\ UNCHANGED <<configs, templates, products, categories, remote, taxonomy, api_calls, now>>

\* ------------------------------------------------------ sync_insales_product

\* a guard that looks at the link fields only
SyncProductSkipsUnlinked(tid) ==
    \/ templates[tid].insales_sync_config_id = 0
    \/ templates[tid].insales_sync_product_id = 0

\* the guard of sync_insales_product: it returns at once when this holds
SyncProductSkips(tid) ==
    \/ templates[tid].insales_sync_config_id = 0
    \/ ~configs[templates[tid].insales_sync_config_id].active
    \/ templates[tid].insales_sync_product_id = 0

\* sync_insales_product(product_template), up to the start of the loop
SyncInsalesProduct(tid) ==
    /\ run.pc = "idle"
    /\ LET cfg_id == templates[tid].insales_sync_config_id
           product_id == templates[tid].insales_sync_product_id
       IN  IF SyncProductSkips(tid)
           THEN /\ last' = [handler |-> "sync_insales_product", outcome |-> "noop",
                            tid |-> tid]
                /\ UNCHANGED <<configs, templates, products, categories, remote, taxonomy,
                               api_calls, now, run>>
           ELSE /\ Len(api_calls) + 2 <= MaxApiCalls
                /\ \E fetch_ok \in BOOLEAN :
                      LET got == FetchProduct(cfg_id, product_id, fetch_ok)
                      IN  /\ api_calls' = Append(api_calls,
                                              [op |-> "get_product", cfg |-> cfg_id,
                                               product_id |-> product_id, ok |-> ~got.failed])
                          /\ IF got.failed
                             THEN /\ run' = run
                                  /\ last' = [handler |-> "sync_insales_product",
                                              outcome |-> RaisedBy("sync_insales_product"),
                                              tid |-> tid]
                             ELSE /\ run' = LoopStart("sync_insales_product", cfg_id,
                                                      got.payload, <<>>, <<>>)
                                  /\ last' = [handler |-> "sync_insales_product",
                                              outcome |-> "started", tid |-> tid]
                /\ UNCHANGED <<configs, templates, products, categories, remote, taxonomy,
                               now>>

\* -------------------------------------------------------- sync_configuration

\* [cat.insales_id for cat in cfg.categories.search([["sync", "=", True]])]:
\* a search of the whole table, in _order
AllowedCatIds(table) ==
    LET order == Ordered(table, {id \in DOMAIN table : table[id].sync})
    IN  [i \in DOMAIN order |-> table[order[i]].insales_id]

\* the products get_products(category_id=...) lists, through the client of
\* configuration cfg_id, by ascending id
RECURSIVE ListedProducts(_)
ListedProducts(ids) ==
    IF ids = {} THEN <<>>
    ELSE LET first == CHOOSE a \in ids : \A b \in ids : a <= b
         IN  <<remote[first]>> \o ListedProducts(ids \ {first})

Listing(cfg_id, category_id) ==
    ListedProducts({p \in DOMAIN remote :
                       remote[p].shop = cfg_id /\ remote[p].category_id = category_id})

\* sync_configuration(cfg), up to the first pull from the product iterator
SyncConfiguration(cfg_id) ==
    /\ run.pc = "idle"
    /\ IF ~configs[cfg_id].active
       THEN /\ last' = [handler |-> "sync_configuration", outcome |-> "noop",
                        cfg |-> cfg_id]
            /\ UNCHANGED <<configs, templates, products, categories, remote, taxonomy,
                           api_calls, now, run>>
       ELSE /\ Len(api_calls) + 2 <= MaxApiCalls
            /\ \E fetch_ok \in BOOLEAN :
                  /\ api_calls' = Append(api_calls, [op |-> "get_categories",
                                                     cfg |-> cfg_id, ok |-> fetch_ok])
                  /\ IF fetch_ok
                     THEN LET table == update_categories(categories, cfg_id, taxonomy[cfg_id])
                          IN  /\ categories' = table
                              /\ run' = [pc |-> "stream", entry |-> "sync_configuration",
                                         cfg |-> cfg_id, in_product |-> <<>>, i |-> 0,
                                         handled |-> <<>>, cats |-> AllowedCatIds(table),
                                         stream |-> <<>>, calls_from |-> Len(api_calls),
                                         yielded |-> <<>>, pulled |-> <<>>, done |-> <<>>]
                              /\ last' = [handler |-> "sync_configuration",
                                          outcome |-> "started", cfg |-> cfg_id]
                     ELSE /\ categories' = categories
                          /\ run' = run
                          /\ last' = [handler |-> "sync_configuration",
                                      outcome |-> "ApiError", cfg |-> cfg_id]
            /\ UNCHANGED <<configs, templates, products, remote, taxonomy, now>>

\* the iterator reaches the next category: one listing request
NextListing ==
    /\ run.pc = "stream"
    /\ run.stream = <<>>
    /\ run.cats # <<>>
    /\ \E fetch_ok \in BOOLEAN :
          /\ api_calls' = Append(api_calls, [op |-> "get_products", cfg |-> run.cfg,
                                             category_id |-> Head(run.cats),
                                             ok |-> fetch_ok])
          /\ IF fetch_ok
             THEN LET listed == Listing(run.cfg, Head(run.cats))
                  IN  /\ run' = [run EXCEPT !.cats = Tail(@), !.stream = listed,
                                            !.yielded = @ \o [k \in DOMAIN listed |->
                                                                 listed[k].id]]
                      /\ last' = [handler |-> "get_iter_all_products",
                                  outcome |-> "listed"]
             ELSE /\ run' = Idle
                  /\ last' = [handler |-> "sync_configuration", outcome |-> "ApiError",
                              cfg |-> run.cfg, run |-> run]
    /\ UNCHANGED <<configs, templates, products, categories, remote, taxonomy, now>>

\* the for loop pulls the next product and calls process_insales_product
PullProduct ==
    /\ run.pc = "stream"
    /\ run.stream # <<>>
    /\ run' = [run EXCEPT !.pc = "variants", !.in_product = Head(run.stream),
                          !.stream = Tail(run.stream), !.i = 1, !.handled = <<>>,
                          !.pulled = Append(@, Head(run.stream).id)]
    /\ last' = [handler |-> "process_insales_product", outcome |-> "started", pv |-> None]
    /\ UNCHANGED <<configs, templates, products, categories, remote, taxonomy, api_calls,
                   now>>

\* the iterator is exhausted: sync_configuration returns
FinishConfiguration ==
    /\ run.pc = "stream"
    /\ run.stream = <<>>
    /\ run.cats = <<>>
    /\ run' = Idle
    /\ last' = [handler |-> "sync_configuration", outcome |-> "returned", cfg |-> run.cfg,
                run |-> run]
    /\ UNCHANGED <<configs, templates, products, categories, remote, taxonomy, api_calls,
                   now>>

\* time passes
Tick ==
    /\ run.pc = "idle"
    /\ now < MaxNow
    /\ now' = now + 1
    /\ UNCHANGED <<categories, taxonomy, configs, templates, products, remote, api_calls, run, last>>

\* ------------------------------------- the variant reconciler, run and re-run

\* an active configuration with every generator off
QuietConfig(prod) == [NewConfig EXCEPT !.active = TRUE, !.prod_environment = prod]

\* a local variant already linked to remote variant 100 of remote product 10
LinkedProduct == [NewProduct EXCEPT !.insales_sync_variant_id = 100]

\* the quantity mappings of the explored configurations
QtyMappings ==
    {<<>>,
     <<QuantityField("WH", FALSE, "quantity"), QuantityField("SHOP", TRUE, "custom_stock")>>,
     <<QuantityField("SHOP", FALSE, "qty_typo"), QuantityField("WH", TRUE, "custom_reserve"),
       QuantityField("SHOP", TRUE, "custom_stock")>>}

Stock(wh) == ("WH" :> wh) @@ ("SHOP" :> <<Quant(5, 0)>>)

\* weight sync on: local weights below, at and above zero against a remote
\* weight that is unset, zero or one unit
WeightWorlds ==
    {<<[QuietConfig(prod) EXCEPT !.sync_weight = TRUE, !.sync_weight_skip_zero = sz],
       [LinkedProduct EXCEPT !.weight = w, !.insales_sync_skip_weight = skip],
       RemoteVariant(100, 10, Some("SKU1"), rw, None, None, None, <<>>)>> :
        prod \in BOOLEAN, sz \in BOOLEAN, skip \in BOOLEAN,
        w \in {0 - Scale, 0, 1, Scale + 1}, rw \in {None, Some(0), Some(Scale)}}

\* a pricelist set, with and without an old-price pricelist
PriceWorlds ==
    {<<[QuietConfig(prod) EXCEPT !.pricelist_id = 1, !.old_pricelist_id = opl],
       [LinkedProduct EXCEPT !.pricelist_price = prices, !.insales_sync_skip_price = skip],
       RemoteVariant(100, 10, Some("SKU1"), None, rp[1], rp[2], None, <<>>)>> :
        prod \in BOOLEAN, opl \in {0, 2}, skip \in BOOLEAN,
        prices \in {<<Scale, 2 * Scale>>, <<Scale + 1, Scale>>, <<Scale + 1, Scale + 2>>},
        rp \in {<<None, None>>, <<Some(Scale), Some(2 * Scale)>>}}

\* quantity mappings set
QtyWorlds ==
    {<<[QuietConfig(prod) EXCEPT !.quantity_fields = qf],
       [LinkedProduct EXCEPT !.quant = Stock(wh), !.insales_sync_skip_qty = skip],
       RemoteVariant(100, 10, Some("SKU1"), None, None, None, rq, <<>>)>> :
        prod \in BOOLEAN, qf \in QtyMappings, skip \in BOOLEAN,
        wh \in {<<>>, <<Quant(4, 0)>>, <<Quant(0, 3)>>}, rq \in {Some(0), Some(2)}}

\* every generator on at once
MixedWorlds ==
    {<<[QuietConfig(prod) EXCEPT !.sync_weight = TRUE, !.sync_weight_skip_zero = FALSE,
                                 !.pricelist_id = 1, !.old_pricelist_id = 2,
                                 !.quantity_fields = qf],
       [LinkedProduct EXCEPT !.weight = w, !.pricelist_price = <<Scale, 2 * Scale>>,
                             !.quant = Stock(wh)],
       RemoteVariant(100, 10, Some("SKU1"), None, None, None, Some(0), <<>>)>> :
        prod \in BOOLEAN, qf \in QtyMappings \ {<<>>}, w \in {0, Scale + 1},
        wh \in {<<>>, <<Quant(4, 0)>>}}

VariantWorlds == WeightWorlds \cup PriceWorlds \cup QtyWorlds \cup MixedWorlds

InitVariant == \E w \in VariantWorlds : GenWorld(w[1], w[2], w[3])

NextVariant ==
    \/ SyncInsalesVariant(1)
    \/ SyncInsalesProduct(1)
    \/ ProcessVariantStep
    \/ ProductLoopEnd
    \/ Tick

SpecVariant == InitVariant /\ [][NextVariant]_vars

\* ------------------------------------------------- the category mirror in use

\* update_categories_action on one configuration: get_categories() answers
\* with the shop's list or fails with ApiError, which leaves the table as it is
UpdateCategories(cfg_id) ==
    /\ run.pc = "idle"
    /\ Len(api_calls) < MaxRefreshes
    /\ \E fetch_ok \in BOOLEAN :
          /\ api_calls' = Append(api_calls, [op |-> "get_categories", cfg |-> cfg_id,
                                             ok |-> fetch_ok])
          /\ categories' = IF fetch_ok
                           THEN update_categories(categories, cfg_id, taxonomy[cfg_id])
                           ELSE categories
          /\ last' = [handler |-> "update_categories", cfg |-> cfg_id,
                      outcome |-> IF fetch_ok THEN "returned" ELSE "ApiError"]
    /\ UNCHANGED <<configs, templates, products, remote, taxonomy, now, run>>

\* an operator sets or clears the sync flag of one category
WriteCategorySync(id, value) ==
    /\ run.pc = "idle"
    /\ id \in DOMAIN categories
    /\ categories' = CategoryWrite(categories, {id}, [sync |-> value])
    /\ last' = [handler |-> "category_write", id |-> id, value |-> value]
    /\ UNCHANGED <<configs, templates, products, remote, taxonomy, api_calls, now, run>>

\* the category lists a shop may hold: trees over the remote ids 1, 2, 3
\* and 12
Taxonomies ==
    {<<RemoteCategory(1, None, 1)>>,
     <<RemoteCategory(1, None, 1), RemoteCategory(2, Some(1), 2)>>,
     <<RemoteCategory(1, None, 1), RemoteCategory(12, None, 4), RemoteCategory(3, Some(12), 3)>>,
     <<RemoteCategory(1, None, 1), RemoteCategory(12, None, 4), RemoteCategory(2, Some(12), 2)>>}

\* the shop's category list changes
ChangeTaxonomy(cfg_id, t) ==
    /\ run.pc = "idle"
    /\ taxonomy[cfg_id] # t
    /\ taxonomy' = [taxonomy EXCEPT ![cfg_id] = t]
    /\ UNCHANGED <<configs, templates, products, categories, remote, api_calls, now, run,
                   last>>

CfgIds == {1, 2}

InitCategory ==
    /\ configs = [c \in CfgIds |-> QuietConfig(FALSE)]
    /\ templates = <<>>
    /\ products = <<>>
    /\ categories = <<>>
    /\ remote = <<>>
    /\ taxonomy \in [CfgIds -> {<<RemoteCategory(1, None, 1)>>,
                                <<RemoteCategory(1, None, 1), RemoteCategory(2, Some(1), 2)>>}]
    /\ api_calls = <<>>
    /\ now = 1
    /\ run = Idle
    /\ last = NoCall

NextCategory ==
    \/ \E c \in CfgIds : UpdateCategories(c)
    \/ \E id \in DOMAIN categories, v \in BOOLEAN : WriteCategorySync(id, v)
    \/ \E t \in Taxonomies : ChangeTaxonomy(1, t)

SpecCategory == InitCategory /\ [][NextCategory]_vars

\* ------------------------------------------------- the payload of an update

\* quantity mappings that meet in the payload: two additional fields, two
\* locations mapped to the one fixed field, and both at once
PayloadMappings ==
    {<<QuantityField("WH", FALSE, "quantity")>>,
     <<QuantityField("SHOP", TRUE, "custom_stock"), QuantityField("WH", TRUE, "custom_reserve")>>,
     <<QuantityField("WH", TRUE, "custom_reserve"), QuantityField("WH", FALSE, "quantity"),
       QuantityField("SHOP", TRUE, "custom_stock")>>,
     <<QuantityField("WH", FALSE, "quantity"), QuantityField("SHOP", FALSE, "quantity")>>,
     <<QuantityField("SHOP", FALSE, "quantity"), QuantityField("WH", TRUE, "custom_stock"),
       QuantityField("WH", FALSE, "quantity"), QuantityField("SHOP", TRUE, "custom_reserve")>>}

PayloadWorlds ==
    {<<[QuietConfig(TRUE) EXCEPT !.sync_weight = sw, !.sync_weight_skip_zero = FALSE,
                                 !.quantity_fields = qf],
       [LinkedProduct EXCEPT !.weight = Scale + 1,
                             !.quant = ("WH" :> wh) @@ ("SHOP" :> shop)],
       RemoteVariant(100, 10, Some("SKU1"), None, None, None, rq, rfv)>> :
        sw \in BOOLEAN, qf \in PayloadMappings,
        wh \in {<<>>, <<Quant(4, 0)>>, <<Quant(5, 1), Quant(1, 3)>>},
        shop \in {<<>>, <<Quant(6, 0)>>},
        rq \in {Some(0), Some(2)}, rfv \in RemoteFieldValues}

InitPayload == \E w \in PayloadWorlds : GenWorld(w[1], w[2], w[3])

NextPayload == SyncInsalesVariant(1)

SpecPayload == InitPayload /\ [][NextPayload]_vars

\* ------------------------------------------------ the entry points in use

\* one quantity mapping: the shop's quantity mirrors the warehouse stock
StockConfig(active, prod) ==
    [QuietConfig(prod) EXCEPT !.active = active,
                              !.quantity_fields = <<QuantityField("WH", FALSE, "quantity")>>]

\* the links a product template may carry: none, a configuration without a
\* remote product, a configuration and remote product 10
TemplateLinks == {<<0, 0>>, <<1, 0>>, <<1, 10>>}

\* remote variants of product 10: with the code of one local variant, with
\* the code of another, without a code, with a code nothing local has
SyncVariant(id, sku) ==
    RemoteVariant(id, 10, sku, None, None, None, Some(0), <<>>)

VariantLists ==
    {<<SyncVariant(100, Some("SKU1")), SyncVariant(101, Some("SKU2"))>>,
     <<SyncVariant(102, None), SyncVariant(100, Some("SKU1"))>>,
     <<SyncVariant(103, Some("SKU9")), SyncVariant(101, Some("SKU2")),
       SyncVariant(100, Some("SKU1"))>>}

\* local variants 1 (two units in the warehouse) and 2 (none), and with
\* twin a third one sharing the code of variant 2
LocalProducts(variant_id, twin) ==
    LET first == [NewProduct EXCEPT !.quant = Stock(<<Quant(4, 0)>>),
                                    !.insales_sync_variant_id = variant_id]
        second == [NewProduct EXCEPT !.default_code = Some("SKU2"), !.product_tmpl_id = 2]
    IN  IF twin THEN <<first, second, second>> ELSE <<first, second>>

InitSync ==
    \E active, prod, twin, cat_sync \in BOOLEAN, link \in TemplateLinks,
       variant_id \in {0, 100}, variants \in VariantLists :
        /\ configs = (1 :> StockConfig(active, prod))
        /\ templates = <<[NewTemplate EXCEPT !.insales_sync_config_id = link[1],
                                             !.insales_sync_product_id = link[2]],
                         NewTemplate>>
        /\ products = LocalProducts(variant_id, twin)
        /\ taxonomy = (1 :> <<RemoteCategory(1, None, 1)>>)
        /\ categories = CategoryWrite(update_categories(<<>>, 1, taxonomy[1]), {1},
                                      [sync |-> cat_sync])
        /\ remote = (10 :> RemoteProduct(1, 1, 10, "p10", variants))
        /\ api_calls = <<>>
        /\ now = 1
        /\ run = Idle
        /\ last = NoCall

NextSync ==
    \/ SyncInsalesVariant(1)
    \/ SyncInsalesProduct(1)
    \/ SyncConfiguration(1)
    \/ NextListing
    \/ PullProduct
    \/ ProcessVariantStep
    \/ ProductLoopEnd
    \/ FinishConfiguration

SpecSync == InitSync /\ [][NextSync]_vars

\* ------------------------------------------- two configurations, two shops

\* shop 1 has the root categories 1 and 2; shop 2 has one root category,
\* with an id shop 1 also uses or with an id of its own
StreamTaxonomies ==
    {(1 :> <<RemoteCategory(1, None, 1), RemoteCategory(2, None, 2)>>)
        @@ (2 :> <<RemoteCategory(b, None, 3)>>) : b \in {1, 3}}

\* the table after configuration 2, then configuration 1, refreshed
Mirrored(tax) == update_categories(update_categories(<<>>, 2, tax[2]), 1, tax[1])

\* an operator writes the sync flag of the records ids, one after the other
RECURSIVE WriteFlags(_, _, _)
WriteFlags(table, ids, flags) ==
    IF ids = {} THEN table
    ELSE LET id == CHOOSE a \in ids : \A b \in ids : a <= b
         IN  WriteFlags(CategoryWrite(table, {id}, [sync |-> flags[id]]), ids \ {id}, flags)

InitStream ==
    \E prod \in BOOLEAN, tax \in StreamTaxonomies :
      \E flags \in [DOMAIN Mirrored(tax) -> BOOLEAN] :
        /\ configs = <<StockConfig(TRUE, prod), StockConfig(TRUE, FALSE)>>
        /\ templates = <<NewTemplate, NewTemplate>>
        /\ products = LocalProducts(0, FALSE)
        /\ taxonomy = tax
        /\ categories = WriteFlags(Mirrored(tax), DOMAIN Mirrored(tax), flags)
        /\ remote = (10 :> RemoteProduct(1, 1, 10, "p10", <<SyncVariant(100, Some("SKU1"))>>))
                     @@ (20 :> RemoteProduct(1, 2, 20, "p20",
                                  <<RemoteVariant(200, 20, Some("SKU2"), None, None, None,
                                                  Some(1), <<>>)>>))
                     @@ (30 :> RemoteProduct(2, 1, 30, "p30",
                                  <<RemoteVariant(300, 30, Some("SKU9"), None, None, None,
                                                  Some(0), <<>>)>>))
        /\ api_calls = <<>>
        /\ now = 1
        /\ run = Idle
        /\ last = NoCall

NextStream ==
    \/ \E c \in CfgIds : SyncConfiguration(c)
    \/ NextListing
    \/ PullProduct
    \/ ProcessVariantStep
    \/ ProductLoopEnd
    \/ FinishConfiguration

SpecStream == InitStream /\ [][NextStream]_vars

\* ------------------------------------------------------------------ claims

\* the last handler ran process_insales_variant; PV is what it did
HasVariantCall == "pv" \in DOMAIN last /\ last.pv # None

PV == last.pv[1]

\* the update_product_variant requests among api_calls[from+1 .. to]
UpdatesIn(from, to) ==
    Cardinality({i \in (from + 1)..to : api_calls[i].op = "update_product_variant"})

\* C1: a call of the variant reconciler makes exactly one
\* update_product_variant request when its modifier list is non-empty and
\* the configuration is in production environment, and none otherwise; no
\* update request is ever made for a configuration in test environment.
C1_UpdateOnceWhenProdAndMods ==
    /\ HasVariantCall =>
           UpdatesIn(PV.calls_from, PV.calls_to) =
               (IF PV.mods # <<>> /\ configs[PV.cfg_id].prod_environment THEN 1 ELSE 0)
    /\ \A i \in DOMAIN api_calls :
           api_calls[i].op = "update_product_variant" =>
               configs[api_calls[i].cfg].prod_environment

\* a production call with modifiers made its one update request
C1_Witness ==
    /\ HasVariantCall
    /\ PV.mods # <<>>
    /\ configs[PV.cfg_id].prod_environment
    /\ UpdatesIn(PV.calls_from, PV.calls_to) = 1

\* the local variant carries the remote variant id and the time of the call
WroteBack ==
    /\ products[PV.pid].insales_sync_variant_id = PV.in_variant["id"]
    /\ products[PV.pid].insales_sync_timestamp = PV.at

C3_SecondRunIsNoop ==
    (HasVariantCall /\ PV.repeat) =>
        /\ PV.mods = <<>>
        /\ UpdatesIn(PV.calls_from, PV.calls_to) = 0

\* category a is an ancestor of category c: both belong to one
\* configuration and a's remote id is on c's materialized parent path
IsAncestor(a, c) ==
    /\ a # c
    /\ categories[a].config_id = categories[c].config_id
    /\ LET segs == NonEmpty(Split(categories[c].parent_path))
       IN  \E i \in DOMAIN segs : segs[i] = Str(categories[a].insales_id)

\* C7: after any sequence of writes to category records and of category
\* refreshes, every category that has an ancestor with sync = TRUE has
\* sync = TRUE itself.
C7_SyncInheritedByDescendants ==
    \A a \in DOMAIN categories, c \in DOMAIN categories :
        (IsAncestor(a, c) /\ categories[a].sync) => categories[c].sync

\* the price the shop is given: the pricelist price floored at 0, formatted
GenPriceStr == float_repr(Max(GenProduct.pricelist_price[1], 0))

GenPriceCase ==
    /\ last.handler = "price_modifiers"
    /\ GenCfg.pricelist_id # 0
    /\ GenCfg.old_pricelist_id # 0
    /\ ~GenProduct.insales_sync_skip_price

\* C8: whenever the price generator runs with both pricelists set, the
\* effective old price is null or strictly greater than the formatted
\* price, and no old-price modifier carries a value <= the formatted price.
C8_OldPriceAbovePrice ==
    GenPriceCase =>
        /\ LET eff == EffectiveOldPrice(GenProduct.pricelist_price[2],
                                        Max(GenProduct.pricelist_price[1], 0))
           IN  eff = None \/ eff[1] > GenPriceStr
        /\ \A i \in DOMAIN last.mods :
               last.mods[i].field_name = "old-price" =>
                   \/ last.mods[i].value = None
                   \/ last.mods[i].value[1] > GenPriceStr

GenWeightCase ==
    /\ last.handler = "weight_modifiers"
    /\ GenCfg.sync_weight
    /\ ~GenProduct.insales_sync_skip_weight
    /\ GenCfg.sync_weight_skip_zero
    /\ float_is_zero(Max(GenProduct.weight, 0))

\* C9: with weight sync on, the skip-weight flag unset and the
\* skip-zero-weight policy on, a local weight that is zero once floored at 0
\* (a zero or a negative weight) yields no weight modifier, whatever the
\* remote weight.
C9_SkipZeroWeight == GenWeightCase => last.mods = <<>>

\* what a quantity modifier says, as comparable values
QtyModView(mods) ==
    [i \in DOMAIN mods |->
        <<mods[i].field_name, mods[i].is_list, mods[i].diff_name,
          mods[i].diff_old_value, mods[i].diff_new_value>>]

\* the modifiers mapping i yields when it is the only mapping configured
QtyAlone(i) ==
    get_insales_variant_qty_modifiers(
        [GenCfg EXCEPT !.quantity_fields = <<GenCfg.quantity_fields[i]>>],
        GenProduct, GenVariant)

RECURSIVE QtyAloneAll(_)
QtyAloneAll(i) ==
    IF i > Len(GenCfg.quantity_fields) THEN [mods |-> <<>>, log |-> <<>>]
    ELSE [mods |-> QtyAlone(i).mods \o QtyAloneAll(i + 1).mods,
          log |-> QtyAlone(i).log \o QtyAloneAll(i + 1).log]

\* mapping i is not additional and names a field the payload lacks
QtyFieldUnknown(i) ==
    /\ ~GenCfg.quantity_fields[i].is_additional
    /\ GenCfg.quantity_fields[i].insales_field \notin DOMAIN GenVariant

\* the remote quantity of mapping i, read off the payload
QtyRemote(i) ==
    LET f == GenCfg.quantity_fields[i]
        vals == GenVariant["variant-field-values"]
        hits == {j \in DOMAIN vals : vals[j]["variant-field-id"] = VariantFieldId(f.insales_field)}
    IN  IF ~f.is_additional THEN IntOrZero(GenVariant[f.insales_field])
        ELSE IF hits = {} THEN 0
        ELSE IntOrZero(vals[CHOOSE j \in hits : \A k \in hits : j <= k]["value"])

\* the local on-hand-minus-reserved quantity of mapping i
QtyLocal(i) ==
    insales_sync_get_quantity(GenProduct, GenCfg.quantity_fields[i].location)

\* C10: with the skip-qty flag unset, a non-additional mapping whose field
\* the payload lacks is logged and yields nothing, and the generator's
\* result is every mapping's own result in order: each other mapping yields
\* a modifier exactly when the remote quantity floored at 0 differs from
\* the local quantity.
C10_UnknownFieldSkipsOneMapping ==
    (last.handler = "qty_modifiers" /\ ~GenProduct.insales_sync_skip_qty) =>
        /\ QtyModView(last.mods) = QtyModView(QtyAloneAll(1).mods)
        /\ last.log = QtyAloneAll(1).log
        /\ \A i \in DOMAIN GenCfg.quantity_fields :
               IF QtyFieldUnknown(i)
               THEN /\ QtyAlone(i).mods = <<>>
                    /\ QtyAlone(i).log = <<GenCfg.quantity_fields[i].insales_field>>
               ELSE /\ QtyAlone(i).log = <<>>
                    /\ Len(QtyAlone(i).mods) =
                           (IF Max(QtyRemote(i), 0) # QtyLocal(i) THEN 1 ELSE 0)
                    /\ \A j \in DOMAIN QtyAlone(i).mods :
                           QtyAlone(i).mods[j].diff_new_value = QtyLocal(i)

\* an unknown mapping comes first and a later mapping still yields its modifier
C10_Witness ==
    /\ last.handler = "qty_modifiers"
    /\ ~GenProduct.insales_sync_skip_qty
    /\ Len(GenCfg.quantity_fields) >= 3
    /\ QtyFieldUnknown(1)
    /\ ~QtyFieldUnknown(2) /\ QtyAlone(2).mods # <<>>
    /\ GenCfg.quantity_fields[3].is_additional /\ QtyAlone(3).mods # <<>>
    /\ Len(last.mods) = 2
    /\ last.log = <<"qty_typo">>

\* the loop of process_insales_product handles the remote variant CurVariant
\* in this step
CurVariant == run.in_product.variants[run.i]

VariantStepTaken ==
    /\ run.pc = "variants"
    /\ run.i <= Len(run.in_product.variants)
    /\ run' # run

\* the local variants carrying the code of a remote variant
Matches(in_variant) ==
    {pid \in DOMAIN products :
        Get(in_variant, "sku") # None /\ products[pid].default_code = Get(in_variant, "sku")}

\* C4: in process_insales_product a remote variant is reconciled (the link fields
\* of the matched variant's template are written and process_insales_variant
\* is invoked on the match) exactly when its sku is non-null and exactly one
\* local variant has that code; otherwise nothing local is written, no
\* request is made and the loop moves on to the next remote variant
C4_ReconciledIffUniqueMatch ==
    [][VariantStepTaken =>
        IF Cardinality(Matches(CurVariant)) = 1
        THEN LET pid == CHOOSE m \in Matches(CurVariant) : TRUE
                 linked == templates'[products[pid].product_tmpl_id]
             IN  /\ linked.insales_sync_config_id = run.cfg
                 /\ linked.insales_sync_product_id = run.in_product.id
                 /\ linked.insales_sync_permalink = Some(run.in_product.permalink)
                 /\ HasVariantCall'
                 /\ PV'.pid = pid
                 /\ PV'.cfg_id = run.cfg
                 /\ PV'.in_variant = CurVariant
        ELSE /\ UNCHANGED <<configs, templates, products, categories, remote, api_calls>>
             /\ ~HasVariantCall'
             /\ run'.pc = "variants"
             /\ run'.in_product = run.in_product
             /\ run'.i = run.i + 1]_vars

\* a loop that passed over an unknown code and over an ambiguous code, and
\* reconciled the third remote variant
C4_Witness ==
    /\ run.pc = "variants"
    /\ run.handled = <<"ProductInSalesNotFoundError", "MultipleProductError", "reconciled">>

\* C5: when process_insales_product is left, by return or by exception, every
\* remote variant of the product has been handled
C5_LaterVariantsHandled ==
    "handled" \in DOMAIN last => Len(last.handled) = Len(last.in_product.variants)

\* the step is a call of the entry point handler while no handler runs
EntryCall(handler) ==
    /\ run.pc = "idle"
    /\ last' # last
    /\ last'.handler = handler

ConfigMissingOrInactive(cfg_id) == cfg_id = 0 \/ ~configs[cfg_id].active

NoRemoteCallNoLocalWrite ==
    UNCHANGED <<configs, templates, products, categories, remote, api_calls, run>>

\* C6: sync_configuration on an inactive configuration, and sync_insales_variant
\* and sync_insales_product on a record whose configuration is missing or
\* inactive or whose product id (or variant id, for the variant) is unset,
\* make no API request, write no local record and start no loop
C6_BlockedEntryPointsAreNoops ==
    [][/\ \A c \in DOMAIN configs :
            (EntryCall("sync_configuration") /\ last'.cfg = c /\ ~configs[c].active)
                => NoRemoteCallNoLocalWrite
       /\ \A tid \in DOMAIN templates :
            (/\ EntryCall("sync_insales_product")
             /\ last'.tid = tid
             /\ \/ ConfigMissingOrInactive(templates[tid].insales_sync_config_id)
                \/ templates[tid].insales_sync_product_id = 0)
                => NoRemoteCallNoLocalWrite
       /\ \A pid \in DOMAIN products :
            (/\ EntryCall("sync_insales_variant")
             /\ last'.pid = pid
             /\ LET tmpl == templates[products[pid].product_tmpl_id]
                IN  \/ ConfigMissingOrInactive(tmpl.insales_sync_config_id)
                    \/ tmpl.insales_sync_product_id = 0
                    \/ products[pid].insales_sync_variant_id = 0)
                => NoRemoteCallNoLocalWrite]_vars

\* sync_insales_product was called on a template fully linked to an inactive
\* configuration
C6_Witness ==
    /\ last.handler = "sync_insales_product"
    /\ last.outcome = "noop"
    /\ templates[last.tid].insales_sync_config_id # 0
    /\ templates[last.tid].insales_sync_product_id # 0
    /\ ~configs[templates[last.tid].insales_sync_config_id].active

\* the step appends a request op to the log as its first request, and the
\* request fails
FirstRequestFails(op) ==
    /\ Len(api_calls') > Len(api_calls)
    /\ api_calls'[Len(api_calls) + 1].op = op
    /\ ~api_calls'[Len(api_calls) + 1].ok

\* the step makes one request, runs no variant reconciler and writes no
\* local record
FetchOnly ==
    /\ Len(api_calls') = Len(api_calls) + 1
    /\ ~HasVariantCall'
    /\ UNCHANGED <<configs, templates, products, categories, remote, run>>

\* C11: a call of sync_insales_variant whose get_product_variant request fails
\* raises VariantInSalesNotFoundError, runs no variant reconciler and writes
\* no local record; a call of sync_insales_product whose get_product request
\* fails raises ProductInSalesNotFoundError in the same way
C11_FetchFailureIsRaised ==
    [][/\ (EntryCall("sync_insales_variant") /\ FirstRequestFails("get_product_variant"))
            => (last'.outcome = "VariantInSalesNotFoundError" /\ FetchOnly)
       /\ (EntryCall("sync_insales_product") /\ FirstRequestFails("get_product"))
            => (last'.outcome = "ProductInSalesNotFoundError" /\ FetchOnly)]_vars

\* sync_insales_variant on a fully linked variant of an active configuration
\* has just had its fetch fail
C11_Witness ==
    /\ last.handler = "sync_insales_variant"
    /\ last.outcome = "VariantInSalesNotFoundError"
    /\ ~SyncVariantSkips(last.pid)
    /\ api_calls # <<>>
    /\ api_calls[Len(api_calls)].op = "get_product_variant"
    /\ ~api_calls[Len(api_calls)].ok

\* the last call of the variant reconciler submitted a payload; Payload is
\* the data of its update request
HasPayload == HasVariantCall /\ UpdatesIn(PV.calls_from, PV.calls_to) = 1

Payload == api_calls[PV.calls_to].data

\* the values of the additional-field modifiers, in modifier order
RECURSIVE ListValues(_, _)
ListValues(mods, i) ==
    IF i > Len(mods) THEN <<>>
    ELSE (IF mods[i].is_list THEN <<mods[i].value>> ELSE <<>>) \o ListValues(mods, i + 1)

\* the list under the synthetic key is the additional-field modifiers' values
AdditionalAccumulate ==
    ListValues(PV.mods, 1) # <<>> =>
        /\ "variant-field-values-attributes" \in DOMAIN Payload
        /\ Payload["variant-field-values-attributes"] = ListValues(PV.mods, 1)

\* C12 (as claimed): the payload holds one list of the additional-field
\* modifiers' {handle, value} entries, in modifier order, under
\* "variant-field-values-attributes", and each non-additional modifier's
\* value under that modifier's field name.
C12_PayloadHoldsEveryModifier ==
    HasPayload =>
        /\ AdditionalAccumulate
        /\ \A i \in DOMAIN PV.mods :
               ~PV.mods[i].is_list =>
                   /\ PV.mods[i].field_name \in DOMAIN Payload
                   /\ Payload[PV.mods[i].field_name] = PV.mods[i].value

\* C12 (amended): the payload holds the list of the additional-field
\* modifiers' entries as claimed, and under each field name of a
\* non-additional modifier the value of the last modifier with that name;
\* it has no other key.
C12_PayloadLastScalarWins ==
    HasPayload =>
        /\ AdditionalAccumulate
        /\ DOMAIN Payload = {PV.mods[i].field_name : i \in DOMAIN PV.mods}
        /\ \A i \in DOMAIN PV.mods :
               (/\ ~PV.mods[i].is_list
                /\ \A j \in DOMAIN PV.mods :
                       j > i => PV.mods[j].field_name # PV.mods[i].field_name)
                   => Payload[PV.mods[i].field_name] = PV.mods[i].value

\* a payload built from two additional-field modifiers and two modifiers of
\* the field quantity
C12_Witness ==
    /\ HasPayload
    /\ Len(ListValues(PV.mods, 1)) = 2
    /\ Cardinality({i \in DOMAIN PV.mods : PV.mods[i].field_name = "quantity"}) = 2
    /\ Len(Payload["variant-field-values-attributes"]) = 2

\* a run of sync_configuration that got its category list has ended, by
\* return or by exception; RunCalls are the requests it made
ConfigurationRunEnded ==
    /\ run.pc = "idle"
    /\ last.handler = "sync_configuration"
    /\ "run" \in DOMAIN last

RunCalls == SubSeq(api_calls, last.run.calls_from + 1, Len(api_calls))

\* the listing requests of the run for remote category id
ListingsOf(id) ==
    {i \in DOMAIN RunCalls : RunCalls[i].op = "get_products" /\ RunCalls[i].category_id = id}

\* the remote ids of the categories of configuration cfg_id flagged sync
FlaggedOf(cfg_id) ==
    {categories[id].insales_id :
        id \in {r \in DOMAIN categories :
                   categories[r].config_id = cfg_id /\ categories[r].sync}}

NoListingFailed ==
    \A i \in DOMAIN RunCalls : RunCalls[i].op = "get_products" => RunCalls[i].ok

\* C13: in a run of sync_configuration no listing of which failed, the request
\* for the category list comes first and is the only one, every category of
\* the configuration flagged sync is listed exactly once, and the products
\* the listings yielded are each pulled once, in stream order, each one
\* processed to the end before the next is pulled
C13_RefreshThenEachCategoryOnce ==
    (ConfigurationRunEnded /\ NoListingFailed) =>
        /\ RunCalls[1].op = "get_categories"
        /\ \A i \in DOMAIN RunCalls : i > 1 => RunCalls[i].op # "get_categories"
        /\ \A id \in FlaggedOf(last.run.cfg) : Cardinality(ListingsOf(id)) = 1
        /\ last.run.pulled = last.run.yielded
        /\ \A k \in 1..(Len(last.run.pulled) - 1) :
               k <= Len(last.run.done) /\ last.run.done[k] = last.run.pulled[k]

\* the step is a refresh of the categories of configuration cfg_id
RefreshOf(cfg_id) ==
    /\ Len(api_calls') = Len(api_calls) + 1
    /\ api_calls'[Len(api_calls')].op = "get_categories"
    /\ api_calls'[Len(api_calls')].cfg = cfg_id

\* C14: a refresh of the categories of one configuration leaves every category
\* record of every other configuration in the table and unchanged
C14_RefreshKeepsOtherConfigurations ==
    [][\A c \in DOMAIN configs :
          RefreshOf(c) =>
              \A id \in DOMAIN categories :
                  categories[id].config_id # c =>
                      /\ id \in DOMAIN categories'
                      /\ categories'[id] = categories[id]]_vars

\* the step is a write on category record id that leaves its sync flag true
WriteOnSynced(id) ==
    /\ last'.handler = "category_write"
    /\ last'.id = id
    /\ UNCHANGED api_calls
    /\ categories' # categories
    /\ categories'[id].sync

\* C15: a write on a category whose sync flag is true changes no category that
\* does not have it among its ancestors in the same configuration
C15_PropagationReachesDescendantsOnly ==
    [][\A n \in DOMAIN categories :
          WriteOnSynced(n) =>
              \A id \in DOMAIN categories :
                  (id # n /\ ~IsAncestor(n, id)) => categories'[id] = categories[id]]_vars

\* the step issues a listing request
ListingRequested ==
    /\ Len(api_calls') = Len(api_calls) + 1
    /\ api_calls'[Len(api_calls')].op = "get_products"

\* C16: every listing request of a run of sync_configuration is made through
\* the client of the configuration of the run, for a category of that
\* configuration that is flagged sync
C16_ListingsOfOwnCategoriesOnly ==
    [][ListingRequested =>
          /\ api_calls'[Len(api_calls')].cfg = run.cfg
          /\ api_calls'[Len(api_calls')].category_id \in FlaggedOf(run.cfg)]_vars

====
